---- MODULE Spec2Model ----
(***************************************************************************)
(* Model of the KawaiiMiao renderer core:                                  *)
(*   - Tool/Parallel.h : AParallelUtils::parallelFor, parallel_for_seize,  *)
(*     parallel_for, and the free parallelFor overloads;                   *)
(*   - Core/Scene.h    : Sampler (startPixel, startNextSample,             *)
(*     setSampleNumber, request/get arrays) and RandomSampler.             *)
(* Each thread step that other threads can observe is one action.          *)
(***************************************************************************)
EXTENDS Integers, Sequences, FiniteSets, TLC

(***************************************************************************)
(* Bounds of the model.                                                    *)
(***************************************************************************)
\* largest value of the start / end arguments of a dispatch
MaxEnd == 3
\* largest value std::thread::hardware_concurrency() reports
MaxThreads == 2
\* largest grainSize argument
MaxGrain == 2
\* width in bits of size_t (the type of start, end and of the atomic cursor)
SizeBits == 4
\* largest samplesPerPixel a sampler is constructed with
MaxSpp == 2
\* cap of the sample index: startNextSample is not called beyond it, and
\* setSampleNumber is given numbers of -MaxNegative .. MaxSampleIndex
MaxSampleIndex == 3
MaxNegative == 1
\* largest number of arrays requested per dimensionality
MaxArrays == 1
MaxAdds == 3
MaxParties == 4
MaxChannel == 1
MaxShading == 2

SizeWrap == 2 ^ SizeBits

Policies == {"SERIAL", "PARALLEL"}
Apis == {"member", "free", "grain"}
Threads == 0 .. (MaxThreads - 1)
Participants == 0 .. (MaxParties - 1)

VARIABLES
    \* ---- arguments and environment of one dispatch
    api,            \* which entry point is called
    policy,         \* ExecutionPolicy
    start, end,     \* the range [start, end)
    grainSize,      \* grain of the grain-size overload
    hw,             \* std::thread::hardware_concurrency()
    dchecks,        \* TRUE in a build that compiles DCHECK in
    \* ---- the calling thread
    pc,             \* position of the caller
    i,              \* loop variable of the SERIAL loop
    spawned,        \* j of the spawn loop = threads.size()
    joined,         \* number of threads joined so far
    \* ---- shared
    task_index,     \* std::atomic<size_t> task_index
    \* ---- workers (std::thread)
    wpc,            \* position of each worker
    widx,           \* index (seize) / k (static split) of each worker
    wend,           \* exclusive_end_index of each worker (static split)
    \* ---- what the callback has seen
    calls,          \* per worker: the indices func was invoked with, in order
    mainCalls,      \* the indices func was invoked with on the calling thread
    poolCalls,      \* the indices func was invoked with by tbb's pool
    ranges,         \* the ranges the grain-size callback was invoked with
    cur,            \* tbb: first unit not yet handed to the body
    pending,        \* tbb: indices not yet handed to the body
    \* ---- Sampler (Core/Scene.h)
    samplesPerPixel,
    m_currentPixel,
    m_currentPixelSampleIndex,
    m_array1DOffset, m_array2DOffset,
    m_samples1DArraySizes, m_samples2DArraySizes,
    m_sampleArray1D, m_sampleArray2D,   \* per array: the length of its buffer
    started,        \* startPixel has been called
    failed,         \* a CHECK has failed: the process is over
    \* ---- what the sampler's caller has seen
    lastOp,         \* the last member function called
    lastRet,        \* what it returned
    prevIndex,      \* the sample index before that call
    nextCalls,      \* startNextSample calls since startPixel (-1: after a seek)
    negativeSet,    \* setSampleNumber was given a number < 0 since startPixel
    lastIndexOk,    \* the last startPixel / startNextSample / setSampleNumber
                    \* was startPixel or returned true
    loop,           \* the loop "startPixel; do body while startNextSample()"
    loopLog,        \* the sample indices its body has run at
    \* ---- AtomicFloat shared by adding threads (Tool/Parallel.h)
    bits,           \* std::atomic<uint32_t> bits
    adders,         \* number of threads calling add
    addsEach,       \* number of add(1) calls each of them makes
    apc,            \* position of each adding thread
    oldBits,        \* oldBits of each adding thread
    addsDone,       \* add calls each thread has returned from
    \* ---- Barrier and its participants (Tool/Parallel.h)
    m_count,        \* int m_count
    parties,        \* the count the barrier was constructed with
    callers,        \* number of participants that are going to call wait
    bpc,            \* position of each participant
    destroyed,      \* outcome of ~Barrier
    \* ---- LambertianMaterial, interaction record and arena (Materials/)
    m_Kr,           \* Spectrum m_Kr, as its RGB components
    arena,          \* the objects ARENA_ALLOC has placed, in address order
    si_bsdf,        \* si.bsdf: address of a BSDF in the arena, 0 for null
    matCalls,       \* the (mode, allowMultipleLobes) pairs of the calls made
    \* ---- RandomSampler objects (Core/Scene.h)
    rs,             \* the RandomSampler in use, as a record of its members
    ref,            \* << >>, or << a second RandomSampler driven alongside >>
    rstarted,       \* startPixel has been called on rs
    rfailed,        \* a CHECK has failed: the process is over
    rret,           \* what the last member function called on rs returned
    refRet,         \* what the same call returned on ref
    rpass,          \* get1DArray / get2DArray calls since the cursors were reset,
                    \* counted up to one more than there are arrays
    usedSource      \* rs is a clone of a sampler that had been started

schedVars == << api, policy, start, end, grainSize, hw, dchecks, pc, i, spawned,
                joined, task_index, wpc, widx, wend, calls, mainCalls,
                poolCalls, ranges, cur, pending >>

samplerVars == << samplesPerPixel, m_currentPixel, m_currentPixelSampleIndex,
                  m_array1DOffset, m_array2DOffset, m_samples1DArraySizes,
                  m_samples2DArraySizes, m_sampleArray1D, m_sampleArray2D,
                  started, failed, lastOp, lastRet, prevIndex, nextCalls,
                  negativeSet, lastIndexOk, loop, loopLog >>

atomicVars == << bits, adders, addsEach, apc, oldBits, addsDone >>

\* the objects besides the dispatch functions and the sampler
barrierVars == << m_count, parties, callers, bpc, destroyed >>

materialVars == << m_Kr, arena, si_bsdf, matCalls >>

randomVars == << rs, ref, rstarted, rfailed, rret, refRet, rpass,
                usedSource >>

objectVars == << atomicVars, barrierVars, materialVars, randomVars >>

\* the arguments and environment of a dispatch
args == << api, policy, start, end, grainSize, hw, dchecks >>

\* what the dispatch functions leave alone, resp. the sampler
notSched == << samplerVars, objectVars >>
notSampler == << schedVars, objectVars >>

vars == << schedVars, samplerVars, objectVars >>

(***************************************************************************)
(* Helpers.                                                                *)
(***************************************************************************)
Max(a, b) == IF a >= b THEN a ELSE b
Min(a, b) == IF a <= b THEN a ELSE b

\* inline int numSystemCores() { return glm::max(1u, hardware_concurrency()); }
numSystemCores == Max(1, hw)

\* the units of [a, b)
Range(a, b) == { x \in 0 .. (SizeWrap - 1) : a <= x /\ x < b }

\* number of times x occurs in the sequence s
RECURSIVE Occurs(_, _)
Occurs(s, x) ==
    IF s = << >> THEN 0
    ELSE (IF Head(s) = x THEN 1 ELSE 0) + Occurs(Tail(s), x)

RECURSIVE SumOver(_, _)
SumOver(f, S) ==
    IF S = {} THEN 0
    ELSE LET x == CHOOSE y \in S : TRUE IN f[x] + SumOver(f, S \ {x})

\* number of invocations func(x) by spawned workers
WorkerCount(x) == SumOver([t \in Threads |-> Occurs(calls[t], x)], Threads)

(***************************************************************************)
(* Initial states: the arguments of one call and the machine it runs on.   *)
(* The cursor is a size_t; the ranges drawn keep end + n_threads below its *)
(* wrap-around value.                                                      *)
(***************************************************************************)
IdleWorkers ==
    /\ wpc = [t \in Threads |-> "unspawned"]
    /\ widx = [t \in Threads |-> 0]
    /\ wend = [t \in Threads |-> 0]
    /\ calls = [t \in Threads |-> << >>]

\* no AtomicFloat is in use
NoAtomic ==
    /\ bits = 0
    /\ adders = 0
    /\ addsEach = 0
    /\ apc = [t \in Threads |-> "off"]
    /\ oldBits = [t \in Threads |-> 0]
    /\ addsDone = [t \in Threads |-> 0]

\* no Barrier is in use
NoBarrier ==
    /\ m_count = 0
    /\ parties = 0
    /\ callers = 0
    /\ bpc = [t \in Participants |-> "off"]
    /\ destroyed = "no"

\* no material is evaluated
NoMaterial ==
    /\ m_Kr = << 0, 0, 0 >>
    /\ arena = << >>
    /\ si_bsdf = 0
    /\ matCalls = << >>

\* RNG::RNG(seed) and RNG::setSequence(seed); the generator is declared
\* outside src/: its state is the sequence it was seeded with and the number
\* of draws made since, and a draw is a function of the two
RNG(seed) == [seq |-> seed, n |-> 0]

\* RandomSampler::RandomSampler(int ns, int seed) : Sampler(ns), m_rng(seed)
RandomSampler(ns, seed) ==
    [samplesPerPixel |-> ns,
     m_currentPixel |-> << 0, 0 >>,
     m_currentPixelSampleIndex |-> 0,
     m_array1DOffset |-> 0, m_array2DOffset |-> 0,
     m_samples1DArraySizes |-> << >>, m_samples2DArraySizes |-> << >>,
     m_sampleArray1D |-> << >>, m_sampleArray2D |-> << >>,
     m_rng |-> RNG(seed)]

\* no RandomSampler is in use
NoRandom ==
    /\ rs = RandomSampler(1, 0)
    /\ ref = << >>
    /\ rstarted = FALSE
    /\ rfailed = FALSE
    /\ rret = << "none" >>
    /\ refRet = << "none" >>
    /\ rpass = << 0, 0 >>
    /\ usedSource = FALSE

NoObjects == NoAtomic /\ NoBarrier /\ NoMaterial /\ NoRandom

\* no sampler takes part in a dispatch
NoSampler ==
    /\ samplesPerPixel = 1
    /\ m_currentPixel = << 0, 0 >>
    /\ m_currentPixelSampleIndex = 0
    /\ m_array1DOffset = 0 /\ m_array2DOffset = 0
    /\ m_samples1DArraySizes = << >> /\ m_samples2DArraySizes = << >>
    /\ m_sampleArray1D = << >> /\ m_sampleArray2D = << >>
    /\ started = FALSE
    /\ failed = FALSE
    /\ lastOp = "none"
    /\ lastRet = << "none" >>
    /\ prevIndex = 0
    /\ nextCalls = 0
    /\ negativeSet = FALSE
    /\ lastIndexOk = TRUE
    /\ loop = "none"
    /\ loopLog = << >>

Init ==
    /\ NoSampler
    /\ NoObjects
    /\ api \in Apis
    /\ policy \in Policies
    /\ start \in 0 .. MaxEnd
    /\ end \in 0 .. MaxEnd
    /\ grainSize \in 1 .. MaxGrain
    /\ (api # "grain" => grainSize = 1)
    /\ hw \in 0 .. MaxThreads
    /\ dchecks \in BOOLEAN
    /\ end + numSystemCores < SizeWrap
    /\ pc = "entry"
    /\ i = 0
    /\ spawned = 0
    /\ joined = 0
    /\ task_index = 0
    /\ IdleWorkers
    /\ mainCalls = << >>
    /\ poolCalls = << >>
    /\ ranges = << >>
    /\ cur = 0
    /\ pending = {}

(***************************************************************************)
(* AParallelUtils::parallelFor(start, end, func, policy)                   *)
(***************************************************************************)
ParallelForMember ==
    /\ api = "member"
    /\ pc = "entry"
    /\ IF start > end
         THEN pc' = "done" /\ i' = i
         ELSE IF policy = "PARALLEL"
                THEN pc' = "seize" /\ i' = i
                ELSE pc' = "loop" /\ i' = start
    /\ UNCHANGED << notSched, args, spawned,
                    joined, task_index, wpc, widx, wend, calls, mainCalls,
                    poolCalls, ranges, cur, pending >>

\* variant: the loop runs downwards over the same indices
SerialCallDescending ==
    /\ pc = "loop"
    /\ i < end
    /\ mainCalls' = Append(mainCalls, end - 1 - (i - start))
    /\ i' = (i + 1) % SizeWrap
    /\ UNCHANGED << notSched, args, pc,
                    spawned, joined, task_index, wpc, widx, wend, calls,
                    poolCalls, ranges, cur, pending >>

\* for (auto i = start; i < end; ++i) func(i);   one iteration
SerialCall ==
    /\ pc = "loop"
    /\ i < end
    /\ mainCalls' = Append(mainCalls, i)
    /\ i' = (i + 1) % SizeWrap
    /\ UNCHANGED << notSched, args, pc,
                    spawned, joined, task_index, wpc, widx, wend, calls,
                    poolCalls, ranges, cur, pending >>

\* the loop condition fails: the function returns
SerialExit ==
    /\ pc = "loop"
    /\ ~(i < end)
    /\ pc' = "done"
    /\ UNCHANGED << notSched, args, i,
                    spawned, joined, task_index, wpc, widx, wend, calls,
                    mainCalls, poolCalls, ranges, cur, pending >>

(***************************************************************************)
(* AParallelUtils::parallel_for_seize(start, end, func)                    *)
(***************************************************************************)
\* variant: the cursor is value-initialised, std::atomic<size_t> task_index(0)
SeizeEnterFromZero ==
    /\ pc = "seize"
    /\ IF dchecks /\ ~(start < end)
         THEN pc' = "abort" /\ task_index' = task_index
         ELSE pc' = "spawn" /\ task_index' = 0
    /\ UNCHANGED << notSched, args, i,
                    spawned, joined, wpc, widx, wend, calls, mainCalls,
                    poolCalls, ranges, cur, pending >>

\* DCHECK(start < end); n_threads; std::atomic<size_t> task_index(start);
SeizeEnter ==
    /\ pc = "seize"
    /\ IF dchecks /\ ~(start < end)
         THEN pc' = "abort" /\ task_index' = task_index
         ELSE pc' = "spawn" /\ task_index' = start
    /\ UNCHANGED << notSched, args, i,
                    spawned, joined, wpc, widx, wend, calls, mainCalls,
                    poolCalls, ranges, cur, pending >>

\* threads.push_back(std::thread(inner_loop, j));   one iteration
SeizeSpawn ==
    /\ pc = "spawn"
    /\ spawned < numSystemCores
    /\ wpc' = [wpc EXCEPT ![spawned] = "fetch"]
    /\ spawned' = spawned + 1
    /\ UNCHANGED << notSched, args, pc, i,
                    joined, task_index, widx, wend, calls, mainCalls,
                    poolCalls, ranges, cur, pending >>

\* the spawn loop ends: the caller goes on to the join loop
SpawnDone ==
    /\ pc = "spawn"
    /\ ~(spawned < numSystemCores)
    /\ pc' = "join"
    /\ UNCHANGED << notSched, args, i,
                    spawned, joined, task_index, wpc, widx, wend, calls,
                    mainCalls, poolCalls, ranges, cur, pending >>

\* variant: the loop test is index <= end
SeizeFetchInclusive(t) ==
    /\ wpc[t] = "fetch"
    /\ task_index' = (task_index + 1) % SizeWrap
    /\ widx' = [widx EXCEPT ![t] = task_index]
    /\ IF task_index <= end
         THEN /\ wpc' = [wpc EXCEPT ![t] = "call"]
              /\ calls' = [calls EXCEPT ![t] = Append(@, task_index)]
         ELSE /\ wpc' = [wpc EXCEPT ![t] = "done"]
              /\ calls' = calls
    /\ UNCHANGED << notSched, args, pc, i,
                    spawned, joined, wend, mainCalls, poolCalls, ranges, cur,
                    pending >>

\* variant: a worker that finds the range used up waits for more work
\* instead of leaving its loop
SeizeFetchNoExit(t) ==
    /\ wpc[t] = "fetch"
    /\ task_index < end
    /\ task_index' = (task_index + 1) % SizeWrap
    /\ widx' = [widx EXCEPT ![t] = task_index]
    /\ wpc' = [wpc EXCEPT ![t] = "call"]
    /\ calls' = [calls EXCEPT ![t] = Append(@, task_index)]
    /\ UNCHANGED << notSched, args, pc, i,
                    spawned, joined, wend, mainCalls, poolCalls, ranges, cur,
                    pending >>

\* while ((index = task_index.fetch_add(1)) < end) func(index);
\* the fetch, the test, and the start of the callback
SeizeFetch(t) ==
    /\ wpc[t] = "fetch"
    /\ task_index' = (task_index + 1) % SizeWrap
    /\ widx' = [widx EXCEPT ![t] = task_index]
    /\ IF task_index < end
         THEN /\ wpc' = [wpc EXCEPT ![t] = "call"]
              /\ calls' = [calls EXCEPT ![t] = Append(@, task_index)]
         ELSE /\ wpc' = [wpc EXCEPT ![t] = "done"]
              /\ calls' = calls
    /\ UNCHANGED << notSched, args, pc, i,
                    spawned, joined, wend, mainCalls, poolCalls, ranges, cur, pending >>

\* func(index) returns
SeizeReturn(t) ==
    /\ wpc[t] = "call"
    /\ wpc' = [wpc EXCEPT ![t] = "fetch"]
    /\ UNCHANGED << notSched, args, pc, i,
                    spawned, joined, task_index, widx, wend, calls, mainCalls,
                    poolCalls, ranges, cur, pending >>

\* variant: the threads are detached, the loop does not wait for them
JoinNoWait ==
    /\ pc = "join"
    /\ joined < spawned
    /\ joined' = joined + 1
    /\ UNCHANGED << notSched, args, pc, i,
                    spawned, task_index, wpc, widx, wend, calls, mainCalls,
                    poolCalls, ranges, cur, pending >>

\* for (auto& t : threads) t.join();   one iteration: blocks until t is over
Join ==
    /\ pc = "join"
    /\ joined < spawned
    /\ wpc[joined] = "done"
    /\ joined' = joined + 1
    /\ UNCHANGED << notSched, args, pc, i,
                    spawned, task_index, wpc, widx, wend, calls, mainCalls,
                    poolCalls, ranges, cur, pending >>

\* the join loop ends: the dispatch returns
JoinDone ==
    /\ pc = "join"
    /\ ~(joined < spawned)
    /\ pc' = "done"
    /\ UNCHANGED << notSched, args, i,
                    spawned, joined, task_index, wpc, widx, wend, calls,
                    mainCalls, poolCalls, ranges, cur, pending >>

(***************************************************************************)
(* parallelFor(start, end, func, policy), the free function                *)
(***************************************************************************)
ParallelForFree ==
    /\ api = "free"
    /\ pc = "entry"
    /\ IF start > end
         THEN pc' = "done" /\ i' = i /\ pending' = pending
         ELSE IF policy = "PARALLEL"
                THEN pc' = "tbb" /\ i' = i /\ pending' = Range(start, end)
                ELSE pc' = "loop" /\ i' = start /\ pending' = pending
    /\ UNCHANGED << notSched, args, spawned,
                    joined, task_index, wpc, widx, wend, calls, mainCalls,
                    poolCalls, ranges, cur >>

\* tbb::parallel_for(start, end, func): the library is not part of src/; it
\* applies func to every index of [start, end) once, in no particular order
TbbIndexCall ==
    /\ api = "free"
    /\ pc = "tbb"
    /\ \E x \in pending :
         /\ poolCalls' = Append(poolCalls, x)
         /\ pending' = pending \ {x}
    /\ UNCHANGED << notSched, args, pc, i,
                    spawned, joined, task_index, wpc, widx, wend, calls,
                    mainCalls, ranges, cur >>

TbbIndexReturn ==
    /\ api = "free"
    /\ pc = "tbb"
    /\ pending = {}
    /\ pc' = "done"
    /\ UNCHANGED << notSched, args, i,
                    spawned, joined, task_index, wpc, widx, wend, calls,
                    mainCalls, poolCalls, ranges, cur, pending >>

(***************************************************************************)
(* parallelFor(start, end, grainSize, func, policy), the grain overload    *)
(***************************************************************************)
\* variant: SERIAL hands func the first grain only
ParallelForGrainFirstChunk ==
    /\ api = "grain"
    /\ pc = "entry"
    /\ IF start > end
         THEN pc' = "done" /\ cur' = cur /\ ranges' = ranges
         ELSE IF policy = "PARALLEL"
                THEN pc' = "tbb" /\ cur' = start /\ ranges' = ranges
                ELSE /\ ranges' = Append(ranges,
                                         << start, Min(start + grainSize, end) >>)
                     /\ pc' = "done"
                     /\ cur' = cur
    /\ UNCHANGED << notSched, args, i,
                    spawned, joined, task_index, wpc, widx, wend, calls,
                    mainCalls, poolCalls, pending >>

\* SERIAL: tbb::blocked_range<size_t> range(start, end, grainSize);
\*         func(range);
ParallelForGrain ==
    /\ api = "grain"
    /\ pc = "entry"
    /\ IF start > end
         THEN pc' = "done" /\ cur' = cur /\ ranges' = ranges
         ELSE IF policy = "PARALLEL"
                THEN pc' = "tbb" /\ cur' = start /\ ranges' = ranges
                ELSE /\ ranges' = Append(ranges, << start, end >>)
                     /\ pc' = "done"
                     /\ cur' = cur
    /\ UNCHANGED << notSched, args, i,
                    spawned, joined, task_index, wpc, widx, wend, calls,
                    mainCalls, poolCalls, pending >>

\* tbb::parallel_for(blocked_range(start, end, grainSize), func,
\* simple_partitioner()): the library is not part of src/; the partitioner
\* splits the range until no piece is longer than grainSize and hands every
\* piece to func once.  Any split into consecutive non-empty pieces of at most
\* grainSize units is allowed here, the split into pieces of exactly
\* grainSize units (last one truncated) included.
TbbRangeCall ==
    /\ api = "grain"
    /\ pc = "tbb"
    /\ cur < end
    /\ \E len \in 1 .. Min(grainSize, end - cur) :
         /\ ranges' = Append(ranges, << cur, cur + len >>)
         /\ cur' = cur + len
    /\ UNCHANGED << notSched, args, pc, i,
                    spawned, joined, task_index, wpc, widx, wend, calls,
                    mainCalls, poolCalls, pending >>

TbbRangeReturn ==
    /\ api = "grain"
    /\ pc = "tbb"
    /\ ~(cur < end)
    /\ pc' = "done"
    /\ UNCHANGED << notSched, args, i,
                    spawned, joined, task_index, wpc, widx, wend, calls,
                    mainCalls, poolCalls, ranges, cur, pending >>

Caller ==
    \/ ParallelForMember
    \/ ParallelForFree
    \/ ParallelForGrain
    \/ SerialCall
    \/ SerialExit
    \/ SeizeEnter
    \/ SeizeSpawn
    \/ SpawnDone
    \/ Join
    \/ JoinDone

Worker(t) ==
    \/ SeizeFetch(t)
    \/ SeizeReturn(t)

Tbb ==
    \/ TbbIndexCall
    \/ TbbIndexReturn
    \/ TbbRangeCall
    \/ TbbRangeReturn

Next ==
    \/ Caller
    \/ Tbb
    \/ \E t \in Threads : Worker(t)

Spec == Init /\ [][Next]_vars

\* every thread that can take a step is eventually scheduled
FairSpec ==
    /\ Init
    /\ [][Next]_vars
    /\ WF_vars(Caller)
    /\ WF_vars(Tbb)
    /\ \A t \in Threads : WF_vars(Worker(t))

(***************************************************************************)
(* Properties of the dispatch functions.                                   *)
(***************************************************************************)
SeizeDispatch == api = "member" /\ policy = "PARALLEL" /\ start < end

AllUnits == 0 .. (SizeWrap - 1)

\* C1: atomic-seize dispatch over [start, end), start < end: in every
\* interleaving no index is handed to the callback twice, none outside
\* [start, end) is handed to it at all, and when the dispatch has returned
\* every index of [start, end) has been handed to it exactly once.
C1_SeizeExactlyOnce ==
    SeizeDispatch =>
        /\ \A x \in AllUnits :
             WorkerCount(x) <= (IF x \in Range(start, end) THEN 1 ELSE 0)
        /\ mainCalls = << >> /\ poolCalls = << >>
        /\ pc = "done" => \A x \in Range(start, end) : WorkerCount(x) = 1

C1_Witness ==
    /\ SeizeDispatch
    /\ pc = "done"
    /\ end - start >= 2
    /\ \E t, u \in Threads : t # u /\ calls[t] # << >> /\ calls[u] # << >>

\* C2: when a PARALLEL dispatch has returned, every spawned worker is over
\* (none is fetching or inside the callback), all n_threads workers were
\* spawned and joined, and every index of [start, end) has had its callback
\* invocation, which has completed.
C2_ReturnsAfterWorkers ==
    (api = "member" /\ policy = "PARALLEL" /\ pc = "done") =>
        /\ \A t \in Threads : wpc[t] \in {"unspawned", "done"}
        /\ start <= end =>
             /\ spawned = numSystemCores /\ joined = spawned
             /\ \A t \in 0 .. (spawned - 1) : wpc[t] = "done"
             /\ \A x \in Range(start, end) : WorkerCount(x) >= 1

C2_Witness ==
    /\ api = "member" /\ policy = "PARALLEL" /\ pc = "done"
    /\ start < end
    /\ spawned >= 2
    /\ calls[spawned - 1] # << >>

\* C5: with policy SERIAL the callback runs on the calling thread only, no
\* thread is spawned, the indices it is given are start, start + 1, ... in
\* this order, and when the call has returned they are exactly the indices
\* of [start, end), each once.
C5_SerialInOrder ==
    (api \in {"member", "free"} /\ policy = "SERIAL") =>
        /\ spawned = 0 /\ \A t \in Threads : wpc[t] = "unspawned"
        /\ \A t \in Threads : calls[t] = << >>
        /\ poolCalls = << >>
        /\ \A k \in 1 .. Len(mainCalls) : mainCalls[k] = start + k - 1
        /\ Len(mainCalls) <= Cardinality(Range(start, end))
        /\ pc = "done" => Len(mainCalls) = Cardinality(Range(start, end))

C5_Witness ==
    /\ api \in {"member", "free"} /\ policy = "SERIAL"
    /\ pc = "done"
    /\ Len(mainCalls) >= 2

NoCallbackRun ==
    /\ mainCalls = << >> /\ poolCalls = << >> /\ ranges = << >>
    /\ \A t \in Threads : calls[t] = << >>

\* C6: for SERIAL and PARALLEL alike, a dispatch with start > end does
\* nothing (no callback, no thread), and a dispatch with start = end invokes
\* no callback and never ends in a failed check.
C6_DegenerateRange ==
    (api \in {"member", "free"} /\ start >= end) =>
        /\ NoCallbackRun
        /\ pc # "abort"
        /\ start > end => (spawned = 0 /\ \A t \in Threads : wpc[t] = "unspawned")

\* C7: once an atomic-seize dispatch has passed its entry check, it
\* eventually returns with every worker over, if every thread that can take a
\* step is eventually scheduled.
C7_SeizeTerminates ==
    (api = "member" /\ pc \in {"spawn", "join"})
        ~> (pc = "done" /\ \A t \in 0 .. (numSystemCores - 1) : wpc[t] = "done")

C7_Witness ==
    /\ api = "member" /\ policy = "PARALLEL"
    /\ pc = "done"
    /\ start < end
    /\ joined = numSystemCores
    /\ task_index = end + numSystemCores

\* C20: in an atomic-seize dispatch over [start, end) with start < end and
\* T = numSystemCores workers, the shared cursor starts at start and a step
\* changes it by +1 or not at all; a worker leaves its loop on the one fetch
\* of its that observes a value >= end, so the number of workers that have
\* left is the amount by which the cursor exceeds end; hence
\* start <= cursor <= end + T in every state, and cursor = end + T when the
\* dispatch returns.
WorkersLeft == { t \in Threads : wpc[t] = "done" }

C20_CursorState ==
    (SeizeDispatch /\ pc \in {"spawn", "join", "done"}) =>
        /\ start <= task_index
        /\ task_index <= end + numSystemCores
        /\ (spawned = 0 => task_index = start)
        /\ Cardinality(WorkersLeft) = Max(0, task_index - end)
        /\ \A t \in WorkersLeft : end <= widx[t] /\ widx[t] < task_index
        /\ \A t, u \in WorkersLeft : t # u => widx[t] # widx[u]
        /\ (pc = "done" => task_index = end + numSystemCores)

C20_CursorStep ==
    (SeizeDispatch /\ pc \in {"spawn", "join", "done"}) =>
        \/ task_index' = task_index
        \/ /\ task_index' = task_index + 1
           /\ \E t \in Threads : wpc[t] = "fetch" /\ widx'[t] = task_index

C20_SeizeCursor == [](C20_CursorState) /\ [][C20_CursorStep]_vars

C20_Witness ==
    /\ SeizeDispatch
    /\ pc = "join"
    /\ start > 0
    /\ numSystemCores = MaxThreads
    /\ WorkersLeft = Threads
    /\ task_index = end + MaxThreads

\* number of received ranges that hold unit x
RangesHolding(x) ==
    Cardinality({ k \in 1 .. Len(ranges) : ranges[k][1] <= x /\ x < ranges[k][2] })

GrainChunks == (Cardinality(Range(start, end)) + grainSize - 1) \div grainSize

\* C8 as stated: for a non-empty [start, end) the grain-size overload hands
\* the callback the consecutive ranges of exactly grainSize units of
\* [start, end), the last one truncated, for SERIAL as for PARALLEL.
C8_GrainPartition ==
    (api = "grain" /\ pc = "done" /\ start < end) =>
        /\ Len(ranges) = GrainChunks
        /\ \A k \in 1 .. Len(ranges) :
             ranges[k] = << start + (k - 1) * grainSize,
                            Min(start + k * grainSize, end) >>

\* C8 as amended: the ranges the callback receives cover [start, end), each
\* unit once; with SERIAL the callback is invoked once, with the whole range
\* [start, end) whatever grainSize is; with PARALLEL no range it receives is
\* empty or longer than grainSize.
C8_GrainRanges ==
    (api = "grain" /\ pc = "done") =>
        /\ start > end => ranges = << >>
        /\ start <= end =>
             /\ \A x \in AllUnits :
                  RangesHolding(x) = (IF x \in Range(start, end) THEN 1 ELSE 0)
             /\ policy = "SERIAL" => ranges = << << start, end >> >>
             /\ policy = "PARALLEL" =>
                  \A k \in 1 .. Len(ranges) :
                      /\ ranges[k][1] < ranges[k][2]
                      /\ ranges[k][2] - ranges[k][1] <= grainSize

C8_Witness ==
    /\ api = "grain" /\ policy = "SERIAL" /\ pc = "done"
    /\ ranges # << >>
    /\ ranges[1][2] - ranges[1][1] > grainSize

(***************************************************************************)
(* AParallelUtils::parallel_for(start, end, function), the static split.   *)
(* The quantities are int in the source; the bounds keep them far below    *)
(* INT_MAX, so they are plain integers here.                               *)
(***************************************************************************)
\* (n_task / n_threads) + (n_task % n_threads == 0 ? 0 : 1)
n_max_tasks_per_thread(n_task, n_threads) ==
    (n_task \div n_threads) + (IF n_task % n_threads = 0 THEN 0 ELSE 1)

\* n_max_tasks_per_thread * n_threads - n_task
n_lacking_tasks(n_task, n_threads) ==
    n_max_tasks_per_thread(n_task, n_threads) * n_threads - n_task

\* std::max(thread_index - n_threads + n_lacking_tasks, 0)
n_lacking_tasks_so_far(thread_index, n_task, n_threads) ==
    Max(thread_index - n_threads + n_lacking_tasks(n_task, n_threads), 0)

\* thread_index * n_max_tasks_per_thread - n_lacking_tasks_so_far
inclusive_start_index(thread_index, n_task, n_threads) ==
    thread_index * n_max_tasks_per_thread(n_task, n_threads)
        - n_lacking_tasks_so_far(thread_index, n_task, n_threads)

\* variant: the shorter chunks start one thread late (> 0 for >= 0)
exclusive_end_index_late(thread_index, n_task, n_threads) ==
    inclusive_start_index(thread_index, n_task, n_threads)
        + n_max_tasks_per_thread(n_task, n_threads)
        - (IF thread_index - n_threads + n_lacking_tasks(n_task, n_threads) > 0
             THEN 1 ELSE 0)

\* inclusive_start_index + n_max_tasks_per_thread
\*     - (thread_index - n_threads + n_lacking_tasks >= 0 ? 1 : 0)
exclusive_end_index(thread_index, n_task, n_threads) ==
    inclusive_start_index(thread_index, n_task, n_threads)
        + n_max_tasks_per_thread(n_task, n_threads)
        - (IF thread_index - n_threads + n_lacking_tasks(n_task, n_threads) >= 0
             THEN 1 ELSE 0)

\* const size_t n_task = end - start;
n_task == (end - start) % SizeWrap

\* the private function is entered directly: it has no caller in src/
InitStatic ==
    /\ NoSampler
    /\ NoObjects
    /\ api = "static"
    /\ policy = "PARALLEL"
    /\ start \in 0 .. MaxEnd
    /\ end \in 0 .. MaxEnd
    /\ start <= end
    /\ grainSize = 1
    /\ hw \in 0 .. MaxThreads
    /\ dchecks \in BOOLEAN
    /\ pc = "split"
    /\ i = 0
    /\ spawned = 0
    /\ joined = 0
    /\ task_index = 0
    /\ IdleWorkers
    /\ mainCalls = << >>
    /\ poolCalls = << >>
    /\ ranges = << >>
    /\ cur = 0
    /\ pending = {}

\* DCHECK(start < end); n_threads, n_task, n_max_tasks_per_thread, ...
StaticEnter ==
    /\ pc = "split"
    /\ pc' = IF dchecks /\ ~(start < end) THEN "abort" ELSE "split_spawn"
    /\ UNCHANGED << notSched, args, i,
                    spawned, joined, task_index, wpc, widx, wend, calls,
                    mainCalls, poolCalls, ranges, cur, pending >>

\* threads.push_back(std::thread(inner_loop, j)): the thread starts with
\* k = inclusive_start_index and its exclusive_end_index
StaticSpawn ==
    /\ pc = "split_spawn"
    /\ spawned < numSystemCores
    /\ wpc' = [wpc EXCEPT ![spawned] = "loop"]
    /\ widx' = [widx EXCEPT ![spawned] =
                  inclusive_start_index(spawned, n_task, numSystemCores)]
    /\ wend' = [wend EXCEPT ![spawned] =
                  exclusive_end_index(spawned, n_task, numSystemCores)]
    /\ spawned' = spawned + 1
    /\ UNCHANGED << notSched, args, pc, i,
                    joined, task_index, calls, mainCalls, poolCalls, ranges,
                    cur, pending >>

StaticSpawnDone ==
    /\ pc = "split_spawn"
    /\ ~(spawned < numSystemCores)
    /\ pc' = "split_join"
    /\ UNCHANGED << notSched, args, i,
                    spawned, joined, task_index, wpc, widx, wend, calls,
                    mainCalls, poolCalls, ranges, cur, pending >>

\* for (int k = inclusive_start_index; k < exclusive_end_index; ++k)
\*     function(k);          the test and the start of the callback
StaticCall(t) ==
    /\ wpc[t] = "loop"
    /\ widx[t] < wend[t]
    /\ wpc' = [wpc EXCEPT ![t] = "call"]
    /\ calls' = [calls EXCEPT ![t] = Append(@, widx[t])]
    /\ UNCHANGED << notSched, args, pc, i,
                    spawned, joined, task_index, widx, wend, mainCalls,
                    poolCalls, ranges, cur, pending >>

\* function(k) returns; ++k
StaticReturn(t) ==
    /\ wpc[t] = "call"
    /\ wpc' = [wpc EXCEPT ![t] = "loop"]
    /\ widx' = [widx EXCEPT ![t] = @ + 1]
    /\ UNCHANGED << notSched, args, pc, i,
                    spawned, joined, task_index, wend, calls, mainCalls,
                    poolCalls, ranges, cur, pending >>

\* the loop condition fails: the thread is over
StaticExit(t) ==
    /\ wpc[t] = "loop"
    /\ ~(widx[t] < wend[t])
    /\ wpc' = [wpc EXCEPT ![t] = "done"]
    /\ UNCHANGED << notSched, args, pc, i,
                    spawned, joined, task_index, widx, wend, calls, mainCalls,
                    poolCalls, ranges, cur, pending >>

\* for (auto& t : threads) t.join();   one iteration
StaticJoin ==
    /\ pc = "split_join"
    /\ joined < spawned
    /\ wpc[joined] = "done"
    /\ joined' = joined + 1
    /\ UNCHANGED << notSched, args, pc, i,
                    spawned, task_index, wpc, widx, wend, calls, mainCalls,
                    poolCalls, ranges, cur, pending >>

StaticJoinDone ==
    /\ pc = "split_join"
    /\ ~(joined < spawned)
    /\ pc' = "done"
    /\ UNCHANGED << notSched, args, i,
                    spawned, joined, task_index, wpc, widx, wend, calls,
                    mainCalls, poolCalls, ranges, cur, pending >>

StaticWorker(t) ==
    \/ StaticCall(t)
    \/ StaticReturn(t)
    \/ StaticExit(t)

NextStatic ==
    \/ StaticEnter
    \/ StaticSpawn
    \/ StaticSpawnDone
    \/ StaticJoin
    \/ StaticJoinDone
    \/ \E t \in Threads : StaticWorker(t)

SpecStatic == InitStatic /\ [][NextStatic]_vars

(***************************************************************************)
(* Properties of the static split.                                         *)
(***************************************************************************)
\* C3: when a static-split dispatch over [start, end), start < end, has
\* returned, the callback has been invoked exactly once for every index of
\* [start, end) and for no other index, whatever start is.
C3_StaticCoversRange ==
    (api = "static" /\ pc = "done" /\ start < end) =>
        \A x \in AllUnits :
            WorkerCount(x) = (IF x \in Range(start, end) THEN 1 ELSE 0)

\* the size the claim gives the chunk of worker j
ChunkSize(j, n, T) ==
    IF j < n % T THEN (n + T - 1) \div T ELSE n \div T

\* C4: in a static split of n_task units over T workers the chunk of worker
\* j has ceil(n_task / T) units when j < n_task mod T and floor(n_task / T)
\* otherwise, chunks follow one another without gap from 0, any two sizes
\* differ by at most one, each worker is handed the indices of its chunk in
\* increasing order, and 100 units over 4 workers give 25, 25, 25, 25.
C4_StaticChunkSizes ==
    /\ \A j \in 0 .. 3 :
         exclusive_end_index(j, 100, 4) - inclusive_start_index(j, 100, 4) = 25
    /\ (api = "static" /\ pc \in {"split_spawn", "split_join", "done"}) =>
         LET T == numSystemCores
             first(j) == inclusive_start_index(j, n_task, T)
             last(j) == exclusive_end_index(j, n_task, T)
         IN  /\ \A j \in 0 .. (T - 1) :
                  /\ last(j) - first(j) = ChunkSize(j, n_task, T)
                  /\ first(j) = (IF j = 0 THEN 0 ELSE last(j - 1))
             /\ \A j, k \in 0 .. (T - 1) :
                  (last(j) - first(j)) - (last(k) - first(k)) \in {-1, 0, 1}
             /\ \A j \in 0 .. (spawned - 1) :
                  /\ Len(calls[j]) <= ChunkSize(j, n_task, T)
                  /\ \A m \in 1 .. Len(calls[j]) : calls[j][m] = first(j) + m - 1
                  /\ wpc[j] = "done" => Len(calls[j]) = ChunkSize(j, n_task, T)

C4_Witness ==
    /\ api = "static" /\ pc = "done"
    /\ numSystemCores >= 2
    /\ n_task % numSystemCores # 0
    /\ Len(calls[0]) = Len(calls[numSystemCores - 1]) + 1
    /\ Len(calls[0]) >= 2

(***************************************************************************)
(* Sampler (Core/Scene.h).  The data members are declared in Sampler.h,    *)
(* which is not part of src/; the first startPixel sets the index and the  *)
(* cursors, and the protocol modelled starts there: arrays are requested   *)
(* before it, everything else is called after it.  A failed CHECK ends the *)
(* process.                                                                *)
(***************************************************************************)
Pixels == { << 0, 0 >>, << 1, 0 >> }
ArraySizes == { 1, 2 }
SampleNumbers == (0 - MaxNegative) .. MaxSampleIndex

NoDispatch ==
    /\ api = "none"
    /\ policy = "SERIAL"
    /\ start = 0 /\ end = 0
    /\ grainSize = 1
    /\ hw = 1
    /\ dchecks = FALSE
    /\ pc = "idle"
    /\ i = 0
    /\ spawned = 0
    /\ joined = 0
    /\ task_index = 0
    /\ IdleWorkers
    /\ mainCalls = << >>
    /\ poolCalls = << >>
    /\ ranges = << >>
    /\ cur = 0
    /\ pending = {}

\* Sampler::Sampler(int64_t samplesPerPixel)
InitSampler ==
    /\ NoDispatch
    /\ NoObjects
    /\ samplesPerPixel \in 1 .. MaxSpp
    /\ m_currentPixel = << 0, 0 >>
    /\ m_currentPixelSampleIndex = 0
    /\ m_array1DOffset = 0 /\ m_array2DOffset = 0
    /\ m_samples1DArraySizes = << >> /\ m_samples2DArraySizes = << >>
    /\ m_sampleArray1D = << >> /\ m_sampleArray2D = << >>
    /\ started = FALSE
    /\ failed = FALSE
    /\ lastOp = "none"
    /\ lastRet = << "none" >>
    /\ prevIndex = 0
    /\ nextCalls = 0
    /\ negativeSet = FALSE
    /\ lastIndexOk = TRUE
    /\ loop = "none"
    /\ loopLog = << >>

\* variant: the sample index survives startPixel
startPixelKeepIndex(p) ==
    /\ ~failed
    /\ m_currentPixel' = p
    /\ m_currentPixelSampleIndex' = m_currentPixelSampleIndex
    /\ m_array1DOffset' = 0 /\ m_array2DOffset' = 0
    /\ started' = TRUE
    /\ lastOp' = "startPixel"
    /\ lastRet' = << "none" >>
    /\ prevIndex' = m_currentPixelSampleIndex
    /\ nextCalls' = 0
    /\ negativeSet' = FALSE
    /\ lastIndexOk' = TRUE
    /\ loop' = "running"
    /\ loopLog' = << 0 >>
    /\ UNCHANGED << notSampler, samplesPerPixel, m_samples1DArraySizes,
                    m_samples2DArraySizes, m_sampleArray1D, m_sampleArray2D,
                    failed >>

\* void Sampler::startPixel(const Vector2i& p)
startPixel(p) ==
    /\ ~failed
    /\ m_currentPixel' = p
    /\ m_currentPixelSampleIndex' = 0
    /\ m_array1DOffset' = 0 /\ m_array2DOffset' = 0
    /\ started' = TRUE
    /\ lastOp' = "startPixel"
    /\ lastRet' = << "none" >>
    /\ prevIndex' = m_currentPixelSampleIndex
    /\ nextCalls' = 0
    /\ negativeSet' = FALSE
    /\ lastIndexOk' = TRUE
    /\ loop' = "running"
    /\ loopLog' = << 0 >>
    /\ UNCHANGED << notSampler, samplesPerPixel, m_samples1DArraySizes,
                    m_samples2DArraySizes, m_sampleArray1D, m_sampleArray2D,
                    failed >>

\* what a call that moves the sample index to idx and returns ret leaves in
\* the caller's record
Observed(op, idx, ret) ==
    /\ lastOp' = op
    /\ lastRet' = << "bool", ret >>
    /\ prevIndex' = m_currentPixelSampleIndex
    /\ lastIndexOk' = ret
    /\ nextCalls' = IF op = "startNextSample" /\ nextCalls >= 0
                      THEN nextCalls + 1 ELSE -1
    /\ negativeSet' = (negativeSet \/ (op = "setSampleNumber" /\ idx < 0))
    /\ IF loop = "running" /\ op = "startNextSample"
         THEN IF ret
                THEN loop' = loop /\ loopLog' = Append(loopLog, idx)
                ELSE loop' = "ended" /\ loopLog' = loopLog
         ELSE /\ loop' = (IF loop = "running" THEN "broken" ELSE loop)
              /\ loopLog' = loopLog

\* variant: the index is compared before it is incremented
\* (m_currentPixelSampleIndex++ < samplesPerPixel)
startNextSamplePostIncrement ==
    /\ ~failed /\ started
    /\ m_currentPixelSampleIndex < MaxSampleIndex
    /\ m_array1DOffset' = 0 /\ m_array2DOffset' = 0
    /\ m_currentPixelSampleIndex' = m_currentPixelSampleIndex + 1
    /\ Observed("startNextSample", m_currentPixelSampleIndex + 1,
                m_currentPixelSampleIndex < samplesPerPixel)
    /\ UNCHANGED << notSampler, samplesPerPixel, m_currentPixel,
                    m_samples1DArraySizes, m_samples2DArraySizes,
                    m_sampleArray1D, m_sampleArray2D, started, failed >>

\* bool Sampler::startNextSample()
startNextSample ==
    /\ ~failed /\ started
    /\ m_currentPixelSampleIndex < MaxSampleIndex
    /\ m_array1DOffset' = 0 /\ m_array2DOffset' = 0
    /\ m_currentPixelSampleIndex' = m_currentPixelSampleIndex + 1
    /\ Observed("startNextSample", m_currentPixelSampleIndex + 1,
                m_currentPixelSampleIndex + 1 < samplesPerPixel)
    /\ UNCHANGED << notSampler, samplesPerPixel, m_currentPixel,
                    m_samples1DArraySizes, m_samples2DArraySizes,
                    m_sampleArray1D, m_sampleArray2D, started, failed >>

\* bool Sampler::setSampleNumber(int64_t sampleNum)
setSampleNumber(sampleNum) ==
    /\ ~failed /\ started
    /\ m_array1DOffset' = 0 /\ m_array2DOffset' = 0
    /\ m_currentPixelSampleIndex' = sampleNum
    /\ Observed("setSampleNumber", sampleNum, sampleNum < samplesPerPixel)
    /\ UNCHANGED << notSampler, samplesPerPixel, m_currentPixel,
                    m_samples1DArraySizes, m_samples2DArraySizes,
                    m_sampleArray1D, m_sampleArray2D, started, failed >>

\* void Sampler::request1DArray(int n); roundCount(n) is n for this sampler
request1DArray(n) ==
    /\ ~failed /\ ~started
    /\ Len(m_samples1DArraySizes) < MaxArrays
    /\ m_samples1DArraySizes' = Append(m_samples1DArraySizes, n)
    /\ m_sampleArray1D' = Append(m_sampleArray1D, n * samplesPerPixel)
    /\ lastOp' = "request1DArray"
    /\ lastRet' = << "none" >>
    /\ UNCHANGED << notSampler, samplesPerPixel, m_currentPixel,
                    m_currentPixelSampleIndex, m_array1DOffset,
                    m_array2DOffset, m_samples2DArraySizes, m_sampleArray2D,
                    started, failed, prevIndex, nextCalls, negativeSet,
                    lastIndexOk, loop, loopLog >>

\* void Sampler::request2DArray(int n)
request2DArray(n) ==
    /\ ~failed /\ ~started
    /\ Len(m_samples2DArraySizes) < MaxArrays
    /\ m_samples2DArraySizes' = Append(m_samples2DArraySizes, n)
    /\ m_sampleArray2D' = Append(m_sampleArray2D, n * samplesPerPixel)
    /\ lastOp' = "request2DArray"
    /\ lastRet' = << "none" >>
    /\ UNCHANGED << notSampler, samplesPerPixel, m_currentPixel,
                    m_currentPixelSampleIndex, m_array1DOffset,
                    m_array2DOffset, m_samples1DArraySizes, m_sampleArray1D,
                    started, failed, prevIndex, nextCalls, negativeSet,
                    lastIndexOk, loop, loopLog >>

\* const Float* Sampler::get1DArray(int n): nullptr, a failed CHECK, or the
\* address &m_sampleArray1D[offset][index * n], recorded as
\* << "view", array, first element, n >>
get1DArray(n) ==
    /\ ~failed /\ started
    /\ lastOp' = "get1DArray"
    /\ IF m_array1DOffset = Len(m_sampleArray1D)
         THEN /\ lastRet' = << "null" >>
              /\ UNCHANGED << m_array1DOffset, failed >>
         ELSE IF m_samples1DArraySizes[m_array1DOffset + 1] # n
                   \/ ~(m_currentPixelSampleIndex < samplesPerPixel)
                THEN /\ failed' = TRUE
                     /\ lastRet' = << "failed" >>
                     /\ UNCHANGED m_array1DOffset
                ELSE /\ lastRet' = << "view", m_array1DOffset,
                                      m_currentPixelSampleIndex * n, n >>
                     /\ m_array1DOffset' = m_array1DOffset + 1
                     /\ UNCHANGED failed
    /\ UNCHANGED << notSampler, samplesPerPixel, m_currentPixel,
                    m_currentPixelSampleIndex, m_array2DOffset,
                    m_samples1DArraySizes, m_samples2DArraySizes,
                    m_sampleArray1D, m_sampleArray2D, started, prevIndex,
                    nextCalls, negativeSet, lastIndexOk, loop, loopLog >>

\* const Vector2f* Sampler::get2DArray(int n)
get2DArray(n) ==
    /\ ~failed /\ started
    /\ lastOp' = "get2DArray"
    /\ IF m_array2DOffset = Len(m_sampleArray2D)
         THEN /\ lastRet' = << "null" >>
              /\ UNCHANGED << m_array2DOffset, failed >>
         ELSE IF m_samples2DArraySizes[m_array2DOffset + 1] # n
                   \/ ~(m_currentPixelSampleIndex < samplesPerPixel)
                THEN /\ failed' = TRUE
                     /\ lastRet' = << "failed" >>
                     /\ UNCHANGED m_array2DOffset
                ELSE /\ lastRet' = << "view", m_array2DOffset,
                                      m_currentPixelSampleIndex * n, n >>
                     /\ m_array2DOffset' = m_array2DOffset + 1
                     /\ UNCHANGED failed
    /\ UNCHANGED << notSampler, samplesPerPixel, m_currentPixel,
                    m_currentPixelSampleIndex, m_array1DOffset,
                    m_samples1DArraySizes, m_samples2DArraySizes,
                    m_sampleArray1D, m_sampleArray2D, started, prevIndex,
                    nextCalls, negativeSet, lastIndexOk, loop, loopLog >>

NextSampler ==
    \/ \E p \in Pixels : startPixel(p)
    \/ startNextSample
    \/ \E sampleNum \in SampleNumbers : setSampleNumber(sampleNum)
    \/ \E n \in ArraySizes : request1DArray(n)
    \/ \E n \in ArraySizes : request2DArray(n)
    \/ \E n \in ArraySizes : get1DArray(n)
    \/ \E n \in ArraySizes : get2DArray(n)

SpecSampler == InitSampler /\ [][NextSampler]_vars

(***************************************************************************)
(* Properties of the sampler.                                              *)
(***************************************************************************)
\* C9 as stated: in every state reached through startPixel, startNextSample,
\* setSampleNumber and the getters, 0 <= sample index < samplesPerPixel.
C9_IndexInRange ==
    started =>
        /\ 0 <= m_currentPixelSampleIndex
        /\ m_currentPixelSampleIndex < samplesPerPixel

\* C9 as amended: the sample index is below samplesPerPixel exactly in the
\* states where the last of startPixel, startNextSample and setSampleNumber
\* was startPixel or returned true (after a call that returned false it is
\* samplesPerPixel or more), and it is 0 or more as long as setSampleNumber
\* has not been given a negative number since the last startPixel.
C9_IndexFollowsLastResult ==
    (started /\ ~failed) =>
        /\ lastIndexOk <=> m_currentPixelSampleIndex < samplesPerPixel
        /\ ~negativeSet => 0 <= m_currentPixelSampleIndex
        /\ (lastOp = "startNextSample" /\ nextCalls >= 0 /\ ~lastIndexOk
              /\ prevIndex < samplesPerPixel)
             => m_currentPixelSampleIndex = samplesPerPixel

C9_Witness ==
    /\ started /\ ~failed
    /\ lastOp = "startNextSample"
    /\ ~lastIndexOk
    /\ m_currentPixelSampleIndex = samplesPerPixel

\* C10: after startPixel, the k-th call of startNextSample leaves both array
\* cursors at 0 and the sample index at k, one more than before, and returns
\* true exactly when k < samplesPerPixel; so the body of the loop
\* "startPixel; do body while startNextSample()" runs samplesPerPixel times,
\* at the sample indices 0, 1, ..., samplesPerPixel - 1 in this order.
C10_StartNextSample ==
    /\ lastOp = "startNextSample" =>
         /\ m_array1DOffset = 0 /\ m_array2DOffset = 0
         /\ m_currentPixelSampleIndex = prevIndex + 1
         /\ lastRet = << "bool", m_currentPixelSampleIndex < samplesPerPixel >>
         /\ nextCalls >= 1 => m_currentPixelSampleIndex = nextCalls
    /\ loop = "running" =>
         /\ m_currentPixelSampleIndex < samplesPerPixel
         /\ loopLog = [k \in 1 .. (m_currentPixelSampleIndex + 1) |-> k - 1]
    /\ loop = "ended" =>
         loopLog = [k \in 1 .. samplesPerPixel |-> k - 1]

C10_Witness ==
    /\ loop = "ended"
    /\ lastOp = "startNextSample"
    /\ nextCalls = samplesPerPixel
    /\ samplesPerPixel >= 2
    /\ Len(loopLog) = samplesPerPixel
    /\ m_sampleArray1D # << >> /\ m_sampleArray2D # << >>

\* C19: a view returned by get1DArray(n) / get2DArray(n) lies inside the
\* buffer it points into: it starts at element index * n with
\* 0 <= index * n and index * n + n <= the length of the buffer,
\* n * samplesPerPixel.
C19_ViewInBuffer ==
    /\ (lastOp = "get1DArray" /\ lastRet[1] = "view") =>
         /\ 0 <= lastRet[3]
         /\ lastRet[3] + lastRet[4] <= m_sampleArray1D[lastRet[2] + 1]
         /\ m_sampleArray1D[lastRet[2] + 1] = lastRet[4] * samplesPerPixel
    /\ (lastOp = "get2DArray" /\ lastRet[1] = "view") =>
         /\ 0 <= lastRet[3]
         /\ lastRet[3] + lastRet[4] <= m_sampleArray2D[lastRet[2] + 1]
         /\ m_sampleArray2D[lastRet[2] + 1] = lastRet[4] * samplesPerPixel

(***************************************************************************)
(* AtomicFloat (Tool/Parallel.h).  Float values are small integers; the    *)
(* bit pattern of a value is its encoding by floatToBits, which is         *)
(* declared outside src/: an injective map with 0.0f at pattern 0.  Each   *)
(* of the adders threads calls add(1) addsEach times.                      *)
(***************************************************************************)
floatToBits(v) == IF v = 0 THEN 0 ELSE v + 126
bitsToFloat(b) == IF b = 0 THEN 0 ELSE b - 126

\* explicit AtomicFloat(Float v = 0) { bits = floatToBits(v); }
InitAtomic ==
    /\ NoDispatch
    /\ NoSampler
    /\ NoBarrier
    /\ NoMaterial
    /\ NoRandom
    /\ adders \in 1 .. MaxThreads
    /\ addsEach \in 1 .. MaxAdds
    /\ bits = floatToBits(0)
    /\ apc = [t \in Threads |-> IF t < adders THEN "call" ELSE "off"]
    /\ oldBits = [t \in Threads |-> 0]
    /\ addsDone = [t \in Threads |-> 0]

\* Bits oldBits = bits, newBits;
AtomicLoad(t) ==
    /\ apc[t] = "call"
    /\ oldBits' = [oldBits EXCEPT ![t] = bits]
    /\ apc' = [apc EXCEPT ![t] = "cas"]
    /\ UNCHANGED << schedVars, samplerVars, barrierVars, materialVars,
                    randomVars, bits, adders, addsEach,
                    addsDone >>

\* variant: the new pattern is written with a plain store
AtomicStore(t) ==
    /\ apc[t] = "cas"
    /\ bits' = floatToBits(bitsToFloat(oldBits[t]) + 1)
    /\ addsDone' = [addsDone EXCEPT ![t] = @ + 1]
    /\ apc' = [apc EXCEPT ![t] =
                 IF addsDone[t] + 1 = addsEach THEN "done" ELSE "call"]
    /\ UNCHANGED << schedVars, samplerVars, barrierVars, materialVars,
                    randomVars, adders, addsEach,
                    oldBits >>

\* do { newBits = floatToBits(bitsToFloat(oldBits) + v); }
\* while (!bits.compare_exchange_weak(oldBits, newBits));
\* one pass of the loop: the exchange succeeds only when bits still holds
\* oldBits, and the weak form may also fail then; a failed exchange loads
\* the current pattern into oldBits
AtomicCas(t) ==
    /\ apc[t] = "cas"
    /\ \E spurious \in BOOLEAN :
         IF bits = oldBits[t] /\ ~spurious
           THEN /\ bits' = floatToBits(bitsToFloat(oldBits[t]) + 1)
                /\ addsDone' = [addsDone EXCEPT ![t] = @ + 1]
                /\ apc' = [apc EXCEPT ![t] =
                             IF addsDone[t] + 1 = addsEach
                               THEN "done" ELSE "call"]
                /\ oldBits' = oldBits
           ELSE /\ oldBits' = [oldBits EXCEPT ![t] = bits]
                /\ UNCHANGED << bits, addsDone, apc >>
    /\ UNCHANGED << schedVars, samplerVars, barrierVars, materialVars,
                    randomVars, adders, addsEach >>

NextAtomic == \E t \in Threads : AtomicLoad(t) \/ AtomicCas(t)

SpecAtomic == InitAtomic /\ [][NextAtomic]_vars

\* operator Float() const { return bitsToFloat(bits); }
AtomicValue == bitsToFloat(bits)

AddsReturned == SumOver(addsDone, Threads)

\* C16: when K threads each call add(1) M times on an AtomicFloat that starts
\* at 0, then in every interleaving of the loads and the exchanges, failed
\* and repeated ones included, the value is the number of add calls that
\* have returned, and it is K*M once all threads have finished.
C16_NoLostUpdate ==
    adders >= 1 =>
        /\ AtomicValue = AddsReturned
        /\ (\A t \in Threads : apc[t] \in {"done", "off"})
              => AtomicValue = adders * addsEach

C16_Witness ==
    /\ adders = MaxThreads
    /\ addsEach = MaxAdds
    /\ \A t \in Threads : apc[t] = "done"
    /\ AtomicValue = MaxThreads * MaxAdds
    /\ \E t \in Threads : floatToBits(bitsToFloat(oldBits[t]) + 1) # bits

(***************************************************************************)
(* Barrier (Tool/Parallel.h).  The constructor, the destructor and the     *)
(* fields are in the header; the body of wait() is not part of src/ and is *)
(* modelled after its documented behaviour on these fields: a participant  *)
(* takes the mutex, decrements m_count, and either wakes everybody (the    *)
(* count has reached 0) or sleeps on the condition variable until the      *)
(* count is 0.  callers of the participants are going to call wait().      *)
(***************************************************************************)
\* Barrier(int count) : m_count(count) { CHECK_GT(count, 0); }
InitBarrier ==
    /\ NoDispatch
    /\ NoSampler
    /\ NoAtomic
    /\ NoMaterial
    /\ NoRandom
    /\ parties \in 1 .. MaxParties
    /\ callers \in 0 .. parties
    /\ m_count = parties
    /\ \E S \in SUBSET Participants :
         /\ Cardinality(S) = callers
         /\ bpc = [t \in Participants |-> IF t \in S THEN "before" ELSE "off"]
    /\ destroyed = "no"

\* variant: wait() decrements the count and returns at once
BarrierWaitNoBlock(t) ==
    /\ bpc[t] = "before"
    /\ destroyed = "no"
    /\ m_count' = m_count - 1
    /\ bpc' = [bpc EXCEPT ![t] = "returned"]
    /\ UNCHANGED << schedVars, samplerVars, atomicVars, materialVars,
                    randomVars, parties, callers,
                    destroyed >>

\* void wait();   the call: decrement under the mutex, then return (after
\* notify_all) if the count is 0, or else sleep
BarrierWait(t) ==
    /\ bpc[t] = "before"
    /\ destroyed = "no"
    /\ m_count' = m_count - 1
    /\ bpc' = [bpc EXCEPT ![t] =
                 IF m_count - 1 = 0 THEN "returned" ELSE "blocked"]
    /\ UNCHANGED << schedVars, samplerVars, atomicVars, materialVars,
                    randomVars, parties, callers,
                    destroyed >>

\* void wait();   a sleeping participant wakes up with the count at 0
BarrierWake(t) ==
    /\ bpc[t] = "blocked"
    /\ m_count = 0
    /\ bpc' = [bpc EXCEPT ![t] = "returned"]
    /\ UNCHANGED << schedVars, samplerVars, atomicVars, materialVars,
                    randomVars, m_count, parties,
                    callers, destroyed >>

\* ~Barrier() { CHECK_EQ(m_count, 0); }   run by the owner once no
\* participant is inside wait() or about to call it
BarrierDestroy ==
    /\ destroyed = "no"
    /\ \A t \in Participants : bpc[t] \in {"off", "returned"}
    /\ destroyed' = IF m_count = 0 THEN "ok" ELSE "fatal"
    /\ UNCHANGED << schedVars, samplerVars, atomicVars, materialVars,
                    randomVars, m_count, parties,
                    callers, bpc >>

NextBarrier ==
    \/ \E t \in Participants : BarrierWait(t) \/ BarrierWake(t)
    \/ BarrierDestroy

\* a thread inside wait() keeps running
FairBarrier ==
    /\ InitBarrier
    /\ [][NextBarrier]_vars
    /\ \A t \in Participants : WF_vars(BarrierWake(t))

Arrived == { t \in Participants : bpc[t] \in {"blocked", "returned"} }
Returned == { t \in Participants : bpc[t] = "returned" }

\* C17: for a Barrier constructed with count C > 0, no participant returns
\* from wait() before C participants have called it (m_count is C minus the
\* number of calls), and once exactly C have called it every one of them
\* eventually returns, with m_count = 0 as the destructor's check requires.
C17_NoEarlyReturn ==
    parties >= 1 =>
        /\ m_count = parties - Cardinality(Arrived)
        /\ (Returned # {} => Cardinality(Arrived) = parties)
        /\ (destroyed = "ok" => m_count = 0)
        /\ (destroyed = "fatal" => Arrived = {})

C17_Barrier ==
    /\ [](C17_NoEarlyReturn)
    /\ (parties >= 1 /\ Cardinality(Arrived) = parties)
         ~> (Returned = Arrived /\ Cardinality(Returned) = parties
               /\ m_count = 0)

C17_Witness ==
    /\ parties = MaxParties
    /\ Cardinality(Returned) = MaxParties
    /\ m_count = 0
    /\ destroyed = "ok"

\* the case of the claim's example: all but one participant have arrived
C17_AllButOne ==
    /\ parties = MaxParties
    /\ callers = MaxParties
    /\ Cardinality(Arrived) = MaxParties - 1
    /\ Returned = {}

(***************************************************************************)
(* LambertianMaterial::computeScatteringFunctions (Materials/).  A         *)
(* Spectrum is its three RGB components; isBlack, BSDF::add and            *)
(* ARENA_ALLOC are declared outside src/: isBlack tests all components for *)
(* 0, add appends a lobe, ARENA_ALLOC places a new object at the next free *)
(* address of the arena.                                                   *)
(***************************************************************************)
Spectra == (0 .. MaxChannel) \X (0 .. MaxChannel) \X (0 .. MaxChannel)
TransportModes == {"Radiance", "Importance"}

isBlack(s) == \A c \in 1 .. 3 : s[c] = 0

\* LambertianMaterial(const APropertyTreeNode& node): m_Kr from property "R"
InitMaterial ==
    /\ NoDispatch
    /\ NoSampler
    /\ NoAtomic
    /\ NoBarrier
    /\ NoRandom
    /\ m_Kr \in Spectra
    /\ arena = << >>
    /\ si_bsdf = 0
    /\ matCalls = << >>

\* variant: the lobe is added without the isBlack test
computeScatteringFunctionsAlways(mode, allowMultipleLobes) ==
    /\ Len(matCalls) < MaxShading
    /\ arena' = arena \o << [kind |-> "BSDF", lobes |-> << Len(arena) + 2 >>],
                           [kind |-> "LambertianReflection", R |-> m_Kr] >>
    /\ si_bsdf' = Len(arena) + 1
    /\ matCalls' = Append(matCalls, << mode, allowMultipleLobes >>)
    /\ UNCHANGED << schedVars, samplerVars, atomicVars, barrierVars, randomVars,
                    m_Kr >>

\* si.bsdf = ARENA_ALLOC(arena, BSDF)(si); Spectrum R = m_Kr;
\* if (!R.isBlack()) si.bsdf->add(ARENA_ALLOC(arena, LambertianReflection)(R));
computeScatteringFunctions(mode, allowMultipleLobes) ==
    /\ Len(matCalls) < MaxShading
    /\ LET bsdf == Len(arena) + 1
           R == m_Kr
       IN  /\ si_bsdf' = bsdf
           /\ IF ~isBlack(R)
                THEN arena' = arena \o
                       << [kind |-> "BSDF", lobes |-> << bsdf + 1 >>],
                          [kind |-> "LambertianReflection", R |-> R] >>
                ELSE arena' = Append(arena,
                                     [kind |-> "BSDF", lobes |-> << >>])
    /\ matCalls' = Append(matCalls, << mode, allowMultipleLobes >>)
    /\ UNCHANGED << schedVars, samplerVars, atomicVars, barrierVars, randomVars,
                    m_Kr >>

NextMaterial ==
    \E mode \in TransportModes, allowMultipleLobes \in BOOLEAN :
        computeScatteringFunctions(mode, allowMultipleLobes)

SpecMaterial == InitMaterial /\ [][NextMaterial]_vars

\* C18: after computeScatteringFunctions the interaction record points to a
\* scattering model that the call has newly placed in the arena; the model
\* holds no lobe when the reflectance is black and exactly one lobe, a
\* Lambertian reflection carrying the reflectance, when it is not; mode and
\* allowMultipleLobes have no influence on it.
C18_Attached ==
    matCalls # << >> =>
        /\ si_bsdf \in 1 .. Len(arena)
        /\ arena[si_bsdf].kind = "BSDF"
        /\ IF isBlack(m_Kr)
             THEN arena[si_bsdf].lobes = << >>
             ELSE /\ Len(arena[si_bsdf].lobes) = 1
                  /\ arena[si_bsdf].lobes[1] \in 1 .. Len(arena)
                  /\ arena[arena[si_bsdf].lobes[1]] =
                       [kind |-> "LambertianReflection", R |-> m_Kr]
        /\ Len(arena) = Len(matCalls) * (IF isBlack(m_Kr) THEN 1 ELSE 2)

C18_Fresh ==
    matCalls' # matCalls =>
        /\ si_bsdf' > Len(arena)
        /\ SubSeq(arena', 1, Len(arena)) = arena
        /\ \A a \in 1 .. Len(arena') :
             arena'[a].kind = "BSDF" => (a = si_bsdf' <=> a > Len(arena))

C18_ScatteringModel == [](C18_Attached) /\ [][C18_Fresh]_vars

C18_Witness ==
    /\ Len(matCalls) = MaxShading
    /\ matCalls[1] # matCalls[2]
    /\ ~isBlack(m_Kr)
    /\ si_bsdf = Len(arena) - 1
    /\ Len(arena[si_bsdf].lobes) = 1

C18_WitnessBlack ==
    /\ Len(matCalls) = MaxShading
    /\ isBlack(m_Kr)
    /\ arena[si_bsdf].lobes = << >>

(***************************************************************************)
(* RandomSampler (Core/Scene.h), the pseudo-random sample sequence.  A     *)
(* sampler object is a record of its members, so that a clone is a copy    *)
(* and two objects can be driven by the same calls.  The member functions  *)
(* are operators from an object (and arguments) to the object afterwards   *)
(* and the value returned; << "failed" >> is a failed CHECK.  Floats are   *)
(* the values the generator hands out, 0 is a value-initialised buffer     *)
(* element.                                                                *)
(***************************************************************************)
Seeds == { 0, 1 }
RngCycle == { 0, 1, 2 }
RngPeriod == Cardinality(RngCycle)

\* Float RNG::uniformFloat(): the value handed out, and the generator after
uniformFloat(r) == 1 + r.seq * RngPeriod + r.n
advance(r) == [r EXCEPT !.n = (@ + 1) % RngPeriod]

\* for (j = 0; j < m_sampleArray1D[i].size(); ++j)
\*     m_sampleArray1D[i][j] = m_rng.uniformFloat();
RECURSIVE FillSlots1D(_, _, _)
FillSlots1D(buf, j, r) ==
    IF j > Len(buf) THEN << buf, r >>
    ELSE FillSlots1D([buf EXCEPT ![j] = uniformFloat(r)], j + 1, advance(r))

\* for (i = 0; i < m_sampleArray1D.size(); ++i) ...
RECURSIVE FillArrays1D(_, _, _)
FillArrays1D(arrays, a, r) ==
    IF a > Len(arrays) THEN << arrays, r >>
    ELSE LET f == FillSlots1D(arrays[a], 1, r)
         IN  FillArrays1D([arrays EXCEPT ![a] = f[1]], a + 1, f[2])

\* variant: the inner loop stops one slot short
RECURSIVE FillSlots2DShort(_, _, _)
FillSlots2DShort(buf, j, r) ==
    IF j >= Len(buf) THEN << buf, r >>
    ELSE FillSlots2DShort(
             [buf EXCEPT ![j] = << uniformFloat(r), uniformFloat(advance(r)) >>],
             j + 1, advance(advance(r)))

\* for (j = 0; j < m_sampleArray2D[i].size(); ++j)
\*     m_sampleArray2D[i][j] = { m_rng.uniformFloat(), m_rng.uniformFloat() };
RECURSIVE FillSlots2D(_, _, _)
FillSlots2D(buf, j, r) ==
    IF j > Len(buf) THEN << buf, r >>
    ELSE FillSlots2D(
             [buf EXCEPT ![j] = << uniformFloat(r), uniformFloat(advance(r)) >>],
             j + 1, advance(advance(r)))

\* for (i = 0; i < m_sampleArray2D.size(); ++i) ...
RECURSIVE FillArrays2D(_, _, _)
FillArrays2D(arrays, a, r) ==
    IF a > Len(arrays) THEN << arrays, r >>
    ELSE LET f == FillSlots2D(arrays[a], 1, r)
         IN  FillArrays2D([arrays EXCEPT ![a] = f[1]], a + 1, f[2])

\* void Sampler::startPixel(const Vector2i& p)
Sampler_startPixel(s, p) ==
    [s EXCEPT !.m_currentPixel = p,
              !.m_currentPixelSampleIndex = 0,
              !.m_array1DOffset = 0,
              !.m_array2DOffset = 0]

\* void RandomSampler::startPixel(const Vector2i& p)
RandomSampler_startPixel(s, p) ==
    LET f1 == FillArrays1D(s.m_sampleArray1D, 1, s.m_rng)
        f2 == FillArrays2D(s.m_sampleArray2D, 1, f1[2])
    IN  [obj |-> Sampler_startPixel([s EXCEPT !.m_sampleArray1D = f1[1],
                                              !.m_sampleArray2D = f2[1],
                                              !.m_rng = f2[2]], p),
         ret |-> << "none" >>]

\* bool Sampler::startNextSample()
Sampler_startNextSample(s) ==
    [obj |-> [s EXCEPT !.m_array1DOffset = 0,
                       !.m_array2DOffset = 0,
                       !.m_currentPixelSampleIndex = @ + 1],
     ret |-> << "bool",
                s.m_currentPixelSampleIndex + 1 < s.samplesPerPixel >>]

\* void Sampler::request1DArray(int n)
Sampler_request1DArray(s, n) ==
    [obj |-> [s EXCEPT !.m_samples1DArraySizes = Append(@, n),
                       !.m_sampleArray1D =
                           Append(@, [j \in 1 .. (n * s.samplesPerPixel) |-> 0])],
     ret |-> << "none" >>]

\* void Sampler::request2DArray(int n)
Sampler_request2DArray(s, n) ==
    [obj |-> [s EXCEPT !.m_samples2DArraySizes = Append(@, n),
                       !.m_sampleArray2D =
                           Append(@, [j \in 1 .. (n * s.samplesPerPixel)
                                        |-> << 0, 0 >>])],
     ret |-> << "none" >>]

\* variant: the size is not compared with the registered one
Sampler_get1DArrayAnySize(s, n) ==
    IF s.m_array1DOffset = Len(s.m_sampleArray1D)
      THEN [obj |-> s, ret |-> << "null1D" >>]
      ELSE IF ~(s.m_currentPixelSampleIndex < s.samplesPerPixel)
             THEN [obj |-> s, ret |-> << "failed" >>]
             ELSE [obj |-> [s EXCEPT !.m_array1DOffset = @ + 1],
                   ret |-> << "view1D", s.m_array1DOffset,
                              s.m_currentPixelSampleIndex * n, n >>]

\* const Float* Sampler::get1DArray(int n): nullptr is << "null1D" >>, the
\* address &m_sampleArray1D[array][first] of a view of n elements is
\* << "view1D", array, first, n >>
Sampler_get1DArray(s, n) ==
    IF s.m_array1DOffset = Len(s.m_sampleArray1D)
      THEN [obj |-> s, ret |-> << "null1D" >>]
      ELSE IF s.m_samples1DArraySizes[s.m_array1DOffset + 1] # n
                \/ ~(s.m_currentPixelSampleIndex < s.samplesPerPixel)
             THEN [obj |-> s, ret |-> << "failed" >>]
             ELSE [obj |-> [s EXCEPT !.m_array1DOffset = @ + 1],
                   ret |-> << "view1D", s.m_array1DOffset,
                              s.m_currentPixelSampleIndex * n, n >>]

\* variant: the cursor is not advanced
Sampler_get2DArrayNoAdvance(s, n) ==
    IF s.m_array2DOffset = Len(s.m_sampleArray2D)
      THEN [obj |-> s, ret |-> << "null2D" >>]
      ELSE IF s.m_samples2DArraySizes[s.m_array2DOffset + 1] # n
                \/ ~(s.m_currentPixelSampleIndex < s.samplesPerPixel)
             THEN [obj |-> s, ret |-> << "failed" >>]
             ELSE [obj |-> s,
                   ret |-> << "view2D", s.m_array2DOffset,
                              s.m_currentPixelSampleIndex * n, n >>]

\* const Vector2f* Sampler::get2DArray(int n)
Sampler_get2DArray(s, n) ==
    IF s.m_array2DOffset = Len(s.m_sampleArray2D)
      THEN [obj |-> s, ret |-> << "null2D" >>]
      ELSE IF s.m_samples2DArraySizes[s.m_array2DOffset + 1] # n
                \/ ~(s.m_currentPixelSampleIndex < s.samplesPerPixel)
             THEN [obj |-> s, ret |-> << "failed" >>]
             ELSE [obj |-> [s EXCEPT !.m_array2DOffset = @ + 1],
                   ret |-> << "view2D", s.m_array2DOffset,
                              s.m_currentPixelSampleIndex * n, n >>]

\* variant: the sample index is not checked
RandomSampler_get1DUnchecked(s) ==
    [obj |-> [s EXCEPT !.m_rng = advance(@)],
     ret |-> << "float", uniformFloat(s.m_rng) >>]

\* Float RandomSampler::get1D()
RandomSampler_get1D(s) ==
    IF ~(s.m_currentPixelSampleIndex < s.samplesPerPixel)
      THEN [obj |-> s, ret |-> << "failed" >>]
      ELSE [obj |-> [s EXCEPT !.m_rng = advance(@)],
            ret |-> << "float", uniformFloat(s.m_rng) >>]

\* Vector2f RandomSampler::get2D()
RandomSampler_get2D(s) ==
    IF ~(s.m_currentPixelSampleIndex < s.samplesPerPixel)
      THEN [obj |-> s, ret |-> << "failed" >>]
      ELSE [obj |-> [s EXCEPT !.m_rng = advance(advance(@))],
            ret |-> << "vec", uniformFloat(s.m_rng),
                       uniformFloat(advance(s.m_rng)) >>]

\* variant: the copy keeps the generator of the original
RandomSampler_cloneNoReseed(s, seed) == s

\* std::unique_ptr<Sampler> RandomSampler::clone(int seed):
\* new RandomSampler(*this), then m_rng.setSequence(seed)
RandomSampler_clone(s, seed) == [s EXCEPT !.m_rng = RNG(seed)]

\* a sampler newly constructed and given the arrays of s, in the same order
RECURSIVE Requested1D(_, _)
Requested1D(s, sizes) ==
    IF sizes = << >> THEN s
    ELSE Requested1D(Sampler_request1DArray(s, Head(sizes)).obj, Tail(sizes))

RECURSIVE Requested2D(_, _)
Requested2D(s, sizes) ==
    IF sizes = << >> THEN s
    ELSE Requested2D(Sampler_request2DArray(s, Head(sizes)).obj, Tail(sizes))

FreshLike(s, seed) ==
    Requested2D(Requested1D(RandomSampler(s.samplesPerPixel, seed),
                            s.m_samples1DArraySizes),
                s.m_samples2DArraySizes)

(***************************************************************************)
(* The calls made on rs.  Arrays are requested before the first            *)
(* startPixel, everything else is called after it.  Once rs has been       *)
(* replaced by a clone of itself, a second clone with the same seed, taken *)
(* from a newly constructed sampler with the same arrays, is given every   *)
(* call rs is given.  A sampler is given two arrays at most.               *)
(***************************************************************************)
ArraysRequested ==
    Len(rs.m_samples1DArraySizes) + Len(rs.m_samples2DArraySizes)

InitRandom ==
    /\ NoDispatch
    /\ NoSampler
    /\ NoAtomic
    /\ NoBarrier
    /\ NoMaterial
    /\ \E ns \in 1 .. MaxSpp : rs = RandomSampler(ns, 0)
    /\ ref = << >>
    /\ rstarted = FALSE
    /\ rfailed = FALSE
    /\ rret = << "none" >>
    /\ refRet = << "none" >>
    /\ rpass = << 0, 0 >>
    /\ usedSource = FALSE

\* the outcome of a call: res on rs and, if there is a second sampler,
\* refRes[1] on it
Called(res, refRes) ==
    /\ rs' = res.obj
    /\ rret' = res.ret
    /\ ref' = IF refRes = << >> THEN << >> ELSE << refRes[1].obj >>
    /\ refRet' = IF refRes = << >> THEN << "none" >> ELSE refRes[1].ret
    /\ rfailed' = \/ res.ret = << "failed" >>
                  \/ (refRes # << >> /\ refRes[1].ret = << "failed" >>)
    /\ UNCHANGED << schedVars, samplerVars, atomicVars, barrierVars,
                    materialVars, usedSource >>

RandomStartPixel(p) ==
    /\ ~rfailed
    /\ Called(RandomSampler_startPixel(rs, p),
              IF ref = << >> THEN << >>
              ELSE << RandomSampler_startPixel(ref[1], p) >>)
    /\ rstarted' = TRUE
    /\ rpass' = << 0, 0 >>

\* called until it has returned false
RandomStartNextSample ==
    /\ ~rfailed /\ rstarted
    /\ rs.m_currentPixelSampleIndex < rs.samplesPerPixel
    /\ Called(Sampler_startNextSample(rs),
              IF ref = << >> THEN << >>
              ELSE << Sampler_startNextSample(ref[1]) >>)
    /\ UNCHANGED rstarted
    /\ rpass' = << 0, 0 >>

RandomRequest1DArray(n) ==
    /\ ~rfailed /\ ~rstarted
    /\ Len(rs.m_samples1DArraySizes) < MaxArrays
    /\ ArraysRequested < 2
    /\ Called(Sampler_request1DArray(rs, n),
              IF ref = << >> THEN << >>
              ELSE << Sampler_request1DArray(ref[1], n) >>)
    /\ UNCHANGED << rstarted, rpass >>

RandomRequest2DArray(n) ==
    /\ ~rfailed /\ ~rstarted
    /\ Len(rs.m_samples2DArraySizes) < MaxArrays
    /\ ArraysRequested < 2
    /\ Called(Sampler_request2DArray(rs, n),
              IF ref = << >> THEN << >>
              ELSE << Sampler_request2DArray(ref[1], n) >>)
    /\ UNCHANGED << rstarted, rpass >>

RandomGet1DArray(n) ==
    /\ ~rfailed /\ rstarted
    /\ Called(Sampler_get1DArray(rs, n),
              IF ref = << >> THEN << >>
              ELSE << Sampler_get1DArray(ref[1], n) >>)
    /\ UNCHANGED rstarted
    /\ rpass' = << Min(rpass[1] + 1, Len(rs.m_sampleArray1D) + 1), rpass[2] >>

RandomGet2DArray(n) ==
    /\ ~rfailed /\ rstarted
    /\ Called(Sampler_get2DArray(rs, n),
              IF ref = << >> THEN << >>
              ELSE << Sampler_get2DArray(ref[1], n) >>)
    /\ UNCHANGED rstarted
    /\ rpass' = << rpass[1], Min(rpass[2] + 1, Len(rs.m_sampleArray2D) + 1) >>

RandomGet1D ==
    /\ ~rfailed /\ rstarted
    /\ Called(RandomSampler_get1D(rs),
              IF ref = << >> THEN << >>
              ELSE << RandomSampler_get1D(ref[1]) >>)
    /\ UNCHANGED << rstarted, rpass >>

RandomGet2D ==
    /\ ~rfailed /\ rstarted
    /\ Called(RandomSampler_get2D(rs),
              IF ref = << >> THEN << >>
              ELSE << RandomSampler_get2D(ref[1]) >>)
    /\ UNCHANGED << rstarted, rpass >>

\* rs = rs->clone(seed), next to FreshLike(rs)->clone(seed)
RandomClone(seed) ==
    /\ ~rfailed
    /\ ref = << >>
    /\ rs' = RandomSampler_clone(rs, seed)
    /\ ref' = << RandomSampler_clone(FreshLike(rs, 0), seed) >>
    /\ rret' = << "none" >>
    /\ refRet' = << "none" >>
    /\ usedSource' = rstarted
    /\ rstarted' = FALSE
    /\ rpass' = << 0, 0 >>
    /\ UNCHANGED << schedVars, samplerVars, atomicVars, barrierVars,
                    materialVars, rfailed >>

NextRandom ==
    \/ \E p \in Pixels : RandomStartPixel(p)
    \/ RandomStartNextSample
    \/ \E n \in ArraySizes : RandomRequest1DArray(n)
    \/ \E n \in ArraySizes : RandomRequest2DArray(n)
    \/ \E n \in ArraySizes : RandomGet1DArray(n)
    \/ \E n \in ArraySizes : RandomGet2DArray(n)
    \/ RandomGet1D
    \/ RandomGet2D
    \/ \E seed \in Seeds : RandomClone(seed)

SpecRandom == InitRandom /\ [][NextRandom]_vars

(***************************************************************************)
(* Properties of the pseudo-random sample sequence.                        *)
(***************************************************************************)
Arrays1D == Len(rs.m_sampleArray1D)
Arrays2D == Len(rs.m_sampleArray2D)
Exhausted == ~(rs.m_currentPixelSampleIndex < rs.samplesPerPixel)

\* C11: with A registered 1D (resp. 2D) arrays, in a pass (since the last
\* reset of the cursors) the k-th call of get1DArray (resp. get2DArray)
\* returns a view of the k-th array for k <= A and null for every k > A;
\* each cursor is the number of calls of its own getter, up to A, whatever
\* the other getter has been called; and with the registered size, at a
\* sample index below samplesPerPixel, a call while an array remains is
\* never a failure and never null, in every pass of every sample.
C11_Cursors ==
    (rstarted /\ ~rfailed) =>
        /\ rs.m_array1DOffset = Min(rpass[1], Arrays1D)
        /\ rs.m_array2DOffset = Min(rpass[2], Arrays2D)
        /\ rret[1] = "view1D" =>
             /\ rpass[1] <= Arrays1D
             /\ rret = << "view1D", rpass[1] - 1,
                          rs.m_currentPixelSampleIndex
                            * rs.m_samples1DArraySizes[rpass[1]],
                          rs.m_samples1DArraySizes[rpass[1]] >>
        /\ rret[1] = "null1D" => rpass[1] > Arrays1D
        /\ rret[1] = "view2D" =>
             /\ rpass[2] <= Arrays2D
             /\ rret = << "view2D", rpass[2] - 1,
                          rs.m_currentPixelSampleIndex
                            * rs.m_samples2DArraySizes[rpass[2]],
                          rs.m_samples2DArraySizes[rpass[2]] >>
        /\ rret[1] = "null2D" => rpass[2] > Arrays2D

C11_Calls ==
    \A n \in ArraySizes :
        /\ (/\ ~Exhausted
            /\ rs.m_array1DOffset < Arrays1D
            /\ rs.m_samples1DArraySizes[rs.m_array1DOffset + 1] = n
            /\ RandomGet1DArray(n))
             => /\ rret'[1] = "view1D"
                /\ rs'.m_array2DOffset = rs.m_array2DOffset
        /\ (/\ ~Exhausted
            /\ rs.m_array2DOffset < Arrays2D
            /\ rs.m_samples2DArraySizes[rs.m_array2DOffset + 1] = n
            /\ RandomGet2DArray(n))
             => /\ rret'[1] = "view2D"
                /\ rs'.m_array1DOffset = rs.m_array1DOffset

C11_ArrayProtocol == [](C11_Cursors) /\ [][C11_Calls]_vars

C11_Witness ==
    /\ rstarted /\ ~rfailed
    /\ rs.samplesPerPixel >= 2
    /\ rs.m_currentPixelSampleIndex = rs.samplesPerPixel - 1
    /\ Arrays1D >= 1 /\ Arrays2D >= 1
    /\ rret = << "null1D" >>
    /\ rpass = << Arrays1D + 1, 0 >>
    /\ rs.m_array2DOffset = 0

\* C12: get1DArray(n) or get2DArray(n), called while a registered array
\* remains at the cursor and with n different from the size registered for
\* that array, fails its CHECK: no view is returned and the cursor stays
\* where it was.
C12_Calls ==
    \A n \in ArraySizes :
        /\ (/\ rs.m_array1DOffset < Arrays1D
            /\ rs.m_samples1DArraySizes[rs.m_array1DOffset + 1] # n
            /\ RandomGet1DArray(n))
             => /\ rfailed'
                /\ rret' = << "failed" >>
                /\ rs'.m_array1DOffset = rs.m_array1DOffset
        /\ (/\ rs.m_array2DOffset < Arrays2D
            /\ rs.m_samples2DArraySizes[rs.m_array2DOffset + 1] # n
            /\ RandomGet2DArray(n))
             => /\ rfailed'
                /\ rret' = << "failed" >>
                /\ rs'.m_array2DOffset = rs.m_array2DOffset

C12_SizeMismatch == [][C12_Calls]_vars

C12_Witness ==
    /\ rfailed
    /\ rret = << "failed" >>
    /\ ~Exhausted
    /\ Arrays1D >= 1
    /\ rs.m_array1DOffset = 0
    /\ rpass = << 1, 0 >>

\* C13 as stated: a getter called while the sample index is samplesPerPixel
\* or more ends in a failed CHECK; it returns neither a value, nor a view,
\* nor null.
C13_GetterFails ==
    (rstarted /\ Exhausted) =>
        rret[1] \notin {"float", "vec", "view1D", "view2D", "null1D", "null2D"}

\* C13 as amended: while the sample index is samplesPerPixel or more, get1D
\* and get2D always fail their CHECK, and get1DArray / get2DArray fail
\* theirs when a registered array remains at the cursor; when none remains
\* (or none was registered) they return null without any check.  No getter
\* returns a value or a view.
C13_State ==
    (rstarted /\ Exhausted) =>
        rret[1] \notin {"float", "vec", "view1D", "view2D"}

C13_Calls ==
    Exhausted =>
        /\ RandomGet1D => rfailed' /\ rret' = << "failed" >>
        /\ RandomGet2D => rfailed' /\ rret' = << "failed" >>
        /\ \A n \in ArraySizes :
             /\ RandomGet1DArray(n) =>
                  IF rs.m_array1DOffset < Arrays1D
                    THEN rfailed' /\ rret' = << "failed" >>
                    ELSE ~rfailed' /\ rret' = << "null1D" >> /\ rs' = rs
             /\ RandomGet2DArray(n) =>
                  IF rs.m_array2DOffset < Arrays2D
                    THEN rfailed' /\ rret' = << "failed" >>
                    ELSE ~rfailed' /\ rret' = << "null2D" >> /\ rs' = rs

C13_GetterChecks == [](C13_State) /\ [][C13_Calls]_vars

C13_Witness ==
    /\ rstarted
    /\ rs.m_currentPixelSampleIndex = rs.samplesPerPixel
    /\ rfailed
    /\ rret = << "failed" >>
    /\ Arrays1D = 0 /\ Arrays2D = 0

\* C14: a clone(seed) of a sampler that has been in use and a clone(seed),
\* with the same seed, of a newly constructed sampler with the same arrays,
\* driven from their first startPixel on by the same calls, return the same
\* at every call and are in the same state, buffers included (so the views
\* they return hold the same values).  Any two clones with the same seed and
\* arrays therefore agree, whatever they were cloned from.
C14_SeedDeterminism ==
    ref # << >> =>
        /\ refRet = rret
        /\ ref[1].m_samples1DArraySizes = rs.m_samples1DArraySizes
        /\ ref[1].m_samples2DArraySizes = rs.m_samples2DArraySizes
        /\ ref[1].m_rng.seq = rs.m_rng.seq
        /\ rstarted => ref[1] = rs

C14_Witness ==
    /\ ref # << >>
    /\ usedSource
    /\ rstarted /\ ~rfailed
    /\ Arrays1D + Arrays2D = 2
    /\ rret[1] = "vec"
    /\ refRet = rret

\* the k-th draw from generator r onwards, counting from 0
DrawAt(r, k) == uniformFloat([r EXCEPT !.n = (@ + k) % RngPeriod])

\* number of slots in the first a buffers of arrays
RECURSIVE SlotsBefore(_, _)
SlotsBefore(arrays, a) ==
    IF a <= 1 THEN 0
    ELSE SlotsBefore(arrays, a - 1) + Len(arrays[a - 1])

\* C15: startPixel(p) leaves the sampler with current pixel p, sample index
\* 0 and both cursors 0; every slot of every 1D buffer holds the next draw
\* of the generator in buffer and slot order, every slot of every 2D buffer
\* the next two draws, after those of the 1D buffers; the generator has
\* advanced by exactly that many draws; the registered sizes, the number of
\* buffers and their lengths are as before.
C15_Calls ==
    \A p \in Pixels :
        (/\ rstarted' /\ rret' = << "none" >>
         /\ rs' = RandomSampler_startPixel(rs, p).obj) =>
            LET r == rs.m_rng
                n1 == SlotsBefore(rs.m_sampleArray1D, Arrays1D + 1)
                n2 == SlotsBefore(rs.m_sampleArray2D, Arrays2D + 1)
            IN  /\ rs'.m_currentPixel = p
                /\ rs'.m_currentPixelSampleIndex = 0
                /\ rs'.m_array1DOffset = 0 /\ rs'.m_array2DOffset = 0
                /\ rs'.samplesPerPixel = rs.samplesPerPixel
                /\ rs'.m_samples1DArraySizes = rs.m_samples1DArraySizes
                /\ rs'.m_samples2DArraySizes = rs.m_samples2DArraySizes
                /\ Len(rs'.m_sampleArray1D) = Arrays1D
                /\ Len(rs'.m_sampleArray2D) = Arrays2D
                /\ \A a \in 1 .. Arrays1D :
                     /\ Len(rs'.m_sampleArray1D[a]) = Len(rs.m_sampleArray1D[a])
                     /\ Len(rs'.m_sampleArray1D[a])
                          = rs.m_samples1DArraySizes[a] * rs.samplesPerPixel
                     /\ \A j \in 1 .. Len(rs.m_sampleArray1D[a]) :
                          rs'.m_sampleArray1D[a][j] =
                            DrawAt(r, SlotsBefore(rs.m_sampleArray1D, a) + j - 1)
                /\ \A a \in 1 .. Arrays2D :
                     /\ Len(rs'.m_sampleArray2D[a]) = Len(rs.m_sampleArray2D[a])
                     /\ Len(rs'.m_sampleArray2D[a])
                          = rs.m_samples2DArraySizes[a] * rs.samplesPerPixel
                     /\ \A j \in 1 .. Len(rs.m_sampleArray2D[a]) :
                          LET k == n1 + 2 * (SlotsBefore(rs.m_sampleArray2D, a)
                                               + j - 1)
                          IN  rs'.m_sampleArray2D[a][j] =
                                << DrawAt(r, k), DrawAt(r, k + 1) >>
                /\ rs'.m_rng = [r EXCEPT !.n = (@ + n1 + 2 * n2) % RngPeriod]

C15_StartPixel == [][C15_Calls]_vars

C15_Witness ==
    /\ rstarted /\ ~rfailed
    /\ rret = << "none" >>
    /\ rs.m_currentPixel = << 1, 0 >>
    /\ Arrays1D = 1 /\ Arrays2D = 1
    /\ rs.m_samples2DArraySizes = << 2 >>
    /\ rs.m_sampleArray1D[1][1] # uniformFloat(RNG(rs.m_rng.seq))
    /\ \A j \in 1 .. Len(rs.m_sampleArray2D[1]) :
         rs.m_sampleArray2D[1][j][1] # 0

====
